---- MODULE Spec2Model ----
(***************************************************************************)
(* Model of CI-scripts/image_tree.py: the dependency tree of container     *)
(* images (classes Image and ImageTree) and the rebuild query.             *)
(*                                                                         *)
(* The input is the directory under root_dir.  Each name is one of         *)
(*   "defined": root_dir/<name>/Dockerfile exists, with a well-formed      *)
(*              FROM line naming a parent image and an optional tag;       *)
(*   "nested" : a Dockerfile lies in a deeper directory called <name>      *)
(*              (rglob finds it) while root_dir/<name> is no directory;    *)
(*   "absent" : nothing on disk carries the name (an external base image). *)
(* Image objects are identified by their position in objs, because object  *)
(* identity, not the name, is what `is`, `in` and set() compare.           *)
(***************************************************************************)
EXTENDS Integers, Sequences, FiniteSets, TLC

\* ------------------------------------------------------------- bounds
\* Nested create_image calls after which the interpreter raises
\* RecursionError.  Larger than the number of names, so that only a cyclic
\* FROM chain reaches it.
MaxDepth == 5
\* Longest edited_img_names sequence given to determine_rebuilds.
MaxEdited == 2

ImageNames == {"a", "b", "c"}
BaseNames == {"base"}
Names == ImageNames \cup BaseNames

\* Tags and version tokens are strings, kept as sequences of characters.
\* None is the absent tag (no ':' in the reference).
None == <<>>
Digits == {"0", "1", "2", "3", "4", "5", "6", "7", "8", "9"}
Tags == {None, <<"3", ".", "9">>, <<"l", "a", "t", "e", "s", "t">>}
Versions == {<<"3", ".", "9">>, <<"3", ".", "8">>}

NoImage == 0
NoName == ""

Absent == [kind |-> "absent", parent |-> NoName, tag |-> None]
Nested == [kind |-> "nested", parent |-> NoName, tag |-> None]
Defined == [kind : {"defined"}, parent : Names, tag : Tags]
FileSystems ==
    {f \in [Names -> Defined \cup {Absent, Nested}] :
        \A n \in BaseNames : f[n] = Absent}

\* The inputs of the query specification: one target version and the tags
\* that decide the flag against it, a pinned other version or no tag.
QueryTags == {None, <<"3", ".", "9">>}
QueryVersions == {<<"3", ".", "8">>}
QueryFileSystems ==
    {f \in FileSystems : \A n \in Names : f[n].tag \in QueryTags}

NoError == [type |-> "none", name |-> NoName, known |-> {}]
RaiseError(type) == [type |-> type, name |-> NoName, known |-> {}]

VARIABLES
    fs,               \* the directory tree under root_dir
    python_version,   \* ImageTree.python_version
    dockerfile_paths, \* the list _create_tree iterates, as image names
    idx,              \* position of _create_tree's loop in dockerfile_paths
    pc,               \* "scan" | "register" | "built" | "queried" | "failed"
    image,            \* _create_tree's local `image`
    objs,             \* every Image object created so far
    images,           \* ImageTree.images: name -> object, NoImage if no key
    root_image,       \* ImageTree.root_image
    err,              \* the exception the last operation raised
    edited,           \* the argument of the last determine_rebuilds call
    result            \* the value the last determine_rebuilds call returned

vars == <<fs, python_version, dockerfile_paths, idx, pc, image, objs, images,
          root_image, err, edited, result>>

Range(s) == {s[i] : i \in DOMAIN s}

\* Path.is_dir() of root_dir/<name>
is_dir(f, name) == f[name].kind = "defined"

\* The names rglob('Dockerfile') yields (df_path.parent.name).
Discovered(f) == {n \in Names : f[n].kind \in {"defined", "nested"}}

\* All orderings of a finite set, as sequences without repetition.
Orderings(S) ==
    {s \in [1..Cardinality(S) -> S] : \A i, j \in DOMAIN s : s[i] = s[j] => i = j}

\* Image.__init__
NewImage(name) ==
    [name |-> name, parent |-> NoImage, children |-> <<>>,
     python_compat |-> TRUE, dirpath |-> "path"]

\* The tree-building state threaded through the calls: the heap of Image
\* objects, the two ImageTree fields, the pending exception and the returned
\* object.
Tree(o, im, r) == [objs |-> o, images |-> im, root_image |-> r,
                   err |-> NoError, ret |-> NoImage]

\* The condition of the `if` in _parse_parent_from_dockerfile.
PinnedElsewhere(parent_tag, version) ==
    /\ parent_tag # None
    /\ parent_tag[1] \in Digits
    /\ parent_tag # version

\* Image._parse_parent_from_dockerfile: its effect on self.python_compat
\* (the returned parent name is f[name].parent).
parse_parent(t, self, f, version) ==
    IF PinnedElsewhere(f[t.objs[self].name].tag, version)
    THEN [t EXCEPT !.objs[self].python_compat = FALSE]
    ELSE t

\* Faulty variant of add_child: the list is overwritten instead of extended.
add_child_replacing(t, self, child) ==
    [t EXCEPT !.objs[self].children = <<child>>]

\* Image.add_child
add_child(t, self, child) ==
    IF child \notin Range(t.objs[self].children)
    THEN [t EXCEPT !.objs[self].children = Append(@, child)]
    ELSE t

\* Image.add_parent
add_parent(t, self, parent) == [t EXCEPT !.objs[self].parent = parent]

\* Faulty variant of the propagation: the parent's flag is not looked at.
propagate_nothing(t, parent, child) == t

\* The flag propagation of link_images.
propagate_compat(t, parent, child) ==
    IF ~t.objs[parent].python_compat
    THEN [t EXCEPT !.objs[child].python_compat = FALSE]
    ELSE t

RECURSIVE get_image(_, _, _, _, _, _)
RECURSIVE create_image(_, _, _, _, _)
RECURSIVE add_to_tree(_, _, _, _, _)
RECURSIVE link_images(_, _, _, _, _, _)

\* ImageTree.get_image(image_name, create_new)
get_image(t, image_name, create_new, f, version, depth) ==
    IF t.images[image_name] # NoImage
    THEN [t EXCEPT !.ret = t.images[image_name]]
    ELSE IF create_new
         THEN create_image(t, image_name, f, version, depth)
         ELSE [t EXCEPT !.err =
                 [type |-> "ValueError", name |-> image_name,
                  known |-> {n \in Names : t.images[n] # NoImage}]]

\* ImageTree.create_image: the object is stored in images only after
\* add_to_tree has returned.
create_image(t, image_name, f, version, depth) ==
    IF depth >= MaxDepth
    THEN [t EXCEPT !.err = RaiseError("RecursionError")]
    ELSE LET new == Len(t.objs) + 1
             t1 == [t EXCEPT !.objs = Append(@, NewImage(image_name))]
             t2 == add_to_tree(t1, new, f, version, depth + 1)
         IN  IF t2.err # NoError
             THEN t2
             ELSE [t2 EXCEPT !.images[image_name] = new, !.ret = new]

\* Image.add_to_tree.  self.dirpath is None once the image was made the root,
\* and None has no is_dir.
add_to_tree(t, self, f, version, depth) ==
    IF t.objs[self].dirpath = "None"
    THEN [t EXCEPT !.err = RaiseError("AttributeError")]
    ELSE IF is_dir(f, t.objs[self].name)
         THEN link_images(parse_parent(t, self, f, version),
                          f[t.objs[self].name].parent, self, f, version, depth)
         ELSE [t EXCEPT !.objs[self].dirpath = "None", !.root_image = self]

\* ImageTree.link_images(parent, child), called with the parent's name and
\* the child object.
link_images(t, parent, child, f, version, depth) ==
    LET t1 == get_image(t, parent, TRUE, f, version, depth)
    IN  IF t1.err # NoError
        THEN t1
        ELSE add_parent(add_child(propagate_compat(t1, t1.ret, child),
                                  t1.ret, child),
                        child, t1.ret)

\* ImageTree.__init__ up to the loop of _create_tree, over the given inputs.
InitOver(filesystems, versions) ==
    /\ fs \in filesystems
    /\ python_version \in versions
    /\ dockerfile_paths \in Orderings(Discovered(fs))
    /\ idx = 1
    /\ pc = "scan"
    /\ image = NoImage
    /\ objs = <<>>
    /\ images = [n \in Names |-> NoImage]
    /\ root_image = NoImage
    /\ err = NoError
    /\ edited = <<>>
    /\ result = <<>>

\* _create_tree, line 106: image = self.get_image(image_name, create_new=True)
GetOrCreate ==
    /\ pc = "scan"
    /\ idx <= Len(dockerfile_paths)
    /\ \E t \in {get_image(Tree(objs, images, root_image), dockerfile_paths[idx],
                           TRUE, fs, python_version, 0)} :
           /\ objs' = t.objs
           /\ images' = t.images
           /\ root_image' = t.root_image
           /\ err' = t.err
           /\ image' = t.ret
           /\ pc' = IF t.err = NoError THEN "register" ELSE "failed"
    /\ UNCHANGED <<fs, python_version, dockerfile_paths, idx, edited, result>>

\* _create_tree, line 107: image.add_to_tree()
Register ==
    /\ pc = "register"
    /\ \E t \in {add_to_tree(Tree(objs, images, root_image), image,
                             fs, python_version, 0)} :
           /\ objs' = t.objs
           /\ images' = t.images
           /\ root_image' = t.root_image
           /\ err' = t.err
           /\ pc' = IF t.err = NoError THEN "scan" ELSE "failed"
    /\ idx' = idx + 1
    /\ UNCHANGED <<fs, python_version, dockerfile_paths, image, edited, result>>

\* The loop of _create_tree is exhausted: __init__ returns the tree.
Built ==
    /\ pc = "scan"
    /\ idx > Len(dockerfile_paths)
    /\ pc' = "built"
    /\ UNCHANGED <<fs, python_version, dockerfile_paths, idx, image, objs,
                   images, root_image, err, edited, result>>

RECURSIVE ancestors(_, _, _)
\* Image.ancestors.  The parent of a parentless image is None, and None has
\* no ancestors: ok is FALSE when the property raises AttributeError.
ancestors(o, root, self) ==
    IF o[self].parent # root
    THEN IF o[self].parent = NoImage
         THEN [ok |-> FALSE, val |-> <<>>]
         ELSE LET ancs == ancestors(o, root, o[self].parent)
              IN  IF ancs.ok
                  THEN [ok |-> TRUE, val |-> Append(ancs.val, self)]
                  ELSE ancs
    ELSE [ok |-> TRUE, val |-> <<self>>]

RECURSIVE descendants(_, _)
RECURSIVE descendants_of_each(_, _)
\* Image.descendants
descendants(o, self) == <<self>> \o descendants_of_each(o, o[self].children)

\* The loop of Image.descendants over self.children.
descendants_of_each(o, children) ==
    IF children = <<>>
    THEN <<>>
    ELSE descendants(o, Head(children)) \o descendants_of_each(o, Tail(children))

\* Faulty variant of the lookup: asks get_image to create what is missing.
lookup_edited_creating(t, img_name, f, version) ==
    get_image(t, img_name, TRUE, f, version, 0)

\* determine_rebuilds, line 119: image = self.get_image(img_name, create_new=False)
lookup_edited(t, img_name, f, version) ==
    get_image(t, img_name, FALSE, f, version, 0)

RECURSIVE collect_dependents(_, _, _, _, _)
\* The loop of determine_rebuilds: stops at the first name that raises.
collect_dependents(t, names, dependent_imgs, f, version) ==
    IF names = <<>>
    THEN [tree |-> t, imgs |-> dependent_imgs]
    ELSE LET t1 == lookup_edited(t, Head(names), f, version)
         IN  IF t1.err # NoError
             THEN [tree |-> t1, imgs |-> dependent_imgs]
             ELSE collect_dependents(
                      t1, Tail(names),
                      dependent_imgs \o descendants(t1.objs, t1.ret), f, version)

\* Faulty variant of the sort key: the same key for every image.
sort_key_constant(o, root, img) == 0

\* The sort key of determine_rebuilds: len(img.ancestors)
sort_key(o, root, img) == Len(ancestors(o, root, img).val)

RECURSIVE insert_sorted(_, _, _, _)
\* One step of a stable sort: img goes after every element whose key is not
\* greater than its own.
insert_sorted(o, root, sorted, img) ==
    IF sorted = <<>>
    THEN <<img>>
    ELSE IF sort_key(o, root, Head(sorted)) <= sort_key(o, root, img)
         THEN <<Head(sorted)>> \o insert_sorted(o, root, Tail(sorted), img)
         ELSE <<img>> \o sorted

RECURSIVE sorted_by_key(_, _, _)
\* sorted(unique_dependents, key=...): stable, ascending.
sorted_by_key(o, root, imgs) ==
    IF imgs = <<>>
    THEN <<>>
    ELSE insert_sorted(o, root,
                       sorted_by_key(o, root, SubSeq(imgs, 1, Len(imgs) - 1)),
                       imgs[Len(imgs)])

\* Faulty variant of the filter: every image passes.
keep_every_image(o, img) == TRUE

\* The filter of line 126.
keep_image(o, img) == o[img].python_compat

RECURSIVE names_to_rebuild(_, _)
\* to_rebuild = [img.name for img in sorted_dependents if img.python_compat]
names_to_rebuild(o, imgs) ==
    IF imgs = <<>>
    THEN <<>>
    ELSE IF keep_image(o, Head(imgs))
         THEN <<o[Head(imgs)].name>> \o names_to_rebuild(o, Tail(imgs))
         ELSE names_to_rebuild(o, Tail(imgs))

\* Lines 122-127 on unique_dependents, the list of a set, whose order the
\* interpreter chooses.  Evaluating the keys raises if any of them raises.
sort_and_filter(t, unique_dependents) ==
    IF \E i \in DOMAIN unique_dependents :
           ~ancestors(t.objs, t.root_image, unique_dependents[i]).ok
    THEN [tree |-> [t EXCEPT !.err = RaiseError("AttributeError")],
          to_rebuild |-> <<>>]
    ELSE [tree |-> t,
          to_rebuild |-> names_to_rebuild(
              t.objs, sorted_by_key(t.objs, t.root_image, unique_dependents))]

EditedSeqs == UNION {[1..n -> Names] : n \in 0..MaxEdited}

\* ImageTree.determine_rebuilds(edited_img_names) on the constructed tree.
DetermineRebuilds ==
    /\ pc = "built"
    /\ \E edited_img_names \in EditedSeqs :
       \E c \in {collect_dependents(Tree(objs, images, root_image),
                                    edited_img_names, <<>>, fs, python_version)} :
       \E unique_dependents \in Orderings(Range(c.imgs)) :
       \E r \in {IF c.tree.err # NoError
                 THEN [tree |-> c.tree, to_rebuild |-> <<>>]
                 ELSE sort_and_filter(c.tree, unique_dependents)} :
         /\ edited' = edited_img_names
         /\ objs' = r.tree.objs
         /\ images' = r.tree.images
         /\ root_image' = r.tree.root_image
         /\ err' = r.tree.err
         /\ result' = r.to_rebuild
    /\ pc' = "queried"
    /\ UNCHANGED <<fs, python_version, dockerfile_paths, idx, image>>

\* The caller has taken the returned list, or handled the exception; the tree
\* stands ready for the next query.
Return ==
    /\ pc = "queried"
    /\ pc' = "built"
    /\ err' = NoError
    /\ edited' = <<>>
    /\ result' = <<>>
    /\ UNCHANGED <<fs, python_version, dockerfile_paths, idx, image, objs,
                   images, root_image>>

\* Construction of the tree, over every input.
Init == InitOver(FileSystems, Versions)

Next == GetOrCreate \/ Register \/ Built

Spec == Init /\ [][Next]_vars

\* Construction followed by rebuild queries.
InitQuery == InitOver(QueryFileSystems, QueryVersions)

NextQuery == GetOrCreate \/ Register \/ Built \/ DetermineRebuilds \/ Return

SpecQuery == InitQuery /\ [][NextQuery]_vars

\* ------------------------------------------------------------ properties
\* The Image objects the tree holds under a name.
InTree == {images[n] : n \in Names} \ {NoImage}

NameOf(img) == IF img = NoImage THEN NoName ELSE objs[img].name

RECURSIVE ParentPow(_, _)
\* The image k parent steps above img, NoImage past a parentless one.
ParentPow(img, k) ==
    IF k = 0 \/ img = NoImage THEN img ELSE ParentPow(objs[img].parent, k - 1)

ProperAncestors(img) == {ParentPow(img, k) : k \in 1..Len(objs)} \ {NoImage}

Parentless == {n \in InTree : objs[n].parent = NoImage}

Returned == pc = "queried" /\ err = NoError

\* The condition under which _parse_parent_from_dockerfile clears the flag,
\* in the words of the specification.
TagPinsOtherVersion(tag) == tag # None /\ Head(tag) \in Digits /\ tag # python_version

\* C1: whenever determine_rebuilds returns, the names are in non-decreasing
\* order of ancestor-chain length, and no name comes before the name of one
\* of its proper ancestors.
C1_ParentBeforeChild ==
    Returned =>
        \A i, j \in DOMAIN result :
            i < j =>
                /\ Len(ancestors(objs, root_image, images[result[i]]).val)
                     <= Len(ancestors(objs, root_image, images[result[j]]).val)
                /\ images[result[j]] \notin ProperAncestors(images[result[i]])

\* C1 witness: a returned list of three names or more, in which the name
\* edited first comes after its own ancestor.
C1_Witness ==
    /\ Returned
    /\ Len(result) >= 3
    /\ Len(edited) = 2
    /\ \E i, j \in DOMAIN result :
          /\ i < j
          /\ result[j] = edited[1]
          /\ images[result[i]] \in ProperAncestors(images[result[j]])

\* C2: whenever determine_rebuilds returns, the list holds, once each, exactly
\* the names of the compatible images that are an edited image or have an
\* edited image among their ancestors.
C2_ExactRebuildSet ==
    Returned =>
        /\ \A i, j \in DOMAIN result : result[i] = result[j] => i = j
        /\ Range(result) =
             {objs[m].name :
                m \in {n \in InTree :
                         /\ objs[n].python_compat
                         /\ \E k \in DOMAIN edited :
                               \/ n = images[edited[k]]
                               \/ images[edited[k]] \in ProperAncestors(n)}}

\* C2 witness: two edited images, the second below the first, an incompatible
\* image below them left out and a compatible one returned.
C2_Witness ==
    /\ Returned
    /\ Len(edited) = 2
    /\ images[edited[1]] \in ProperAncestors(images[edited[2]])
    /\ result # <<>>
    /\ \E n \in InTree :
          /\ ~objs[n].python_compat
          /\ images[edited[2]] \in ProperAncestors(n) \cup {n}

\* C3: a call of determine_rebuilds with a name that is no key of images
\* raises the not-found error, naming a missing name and listing the known
\* ones, and leaves objects, mapping and root as they were.
C3_NotFoundLeavesTree ==
    [][(/\ pc = "built"
        /\ pc' = "queried"
        /\ \E k \in DOMAIN edited' : images[edited'[k]] = NoImage)
       => /\ err'.type = "ValueError"
          /\ err'.name \in Range(edited')
          /\ images[err'.name] = NoImage
          /\ err'.known = {n \in Names : images[n] # NoImage}
          /\ objs' = objs
          /\ images' = images
          /\ root_image' = root_image]_vars

\* C3 witness: a query that failed on its second name, the first being known.
C3_Witness ==
    /\ pc = "queried"
    /\ err.type = "ValueError"
    /\ Len(edited) = 2
    /\ images[edited[1]] # NoImage
    /\ err.name = edited[2]
    /\ err.known # {}

\* C4: after construction, an image whose own FROM tag starts with a digit
\* and differs from the target version is incompatible, and so is every
\* child of an incompatible image (hence every descendant).
C4_IncompatibleDownward ==
    pc = "built" =>
        \A n \in InTree :
            /\ (/\ fs[objs[n].name].kind = "defined"
                /\ TagPinsOtherVersion(fs[objs[n].name].tag))
               => ~objs[n].python_compat
            /\ (/\ objs[n].parent # NoImage
                /\ ~objs[objs[n].parent].python_compat)
               => ~objs[n].python_compat

\* C4 witness: a constructed tree in which an untagged child was discovered
\* before its pinned parent and is incompatible all the same.
C4_Witness ==
    /\ pc = "built"
    /\ \E i, j \in DOMAIN dockerfile_paths :
          /\ i < j
          /\ fs[dockerfile_paths[i]].parent = dockerfile_paths[j]
          /\ fs[dockerfile_paths[i]].tag = None
          /\ TagPinsOtherVersion(fs[dockerfile_paths[j]].tag)
          /\ ~objs[images[dockerfile_paths[i]]].python_compat

\* C5: after construction over a non-empty set of definitions exactly one
\* image has no parent, and it is root_image.
C5_SingleRoot ==
    (pc = "built" /\ dockerfile_paths # <<>>) =>
        /\ Cardinality(Parentless) = 1
        /\ Parentless = {root_image}

\* The tree shape the definitions alone determine.
ExpectedNames == Discovered(fs) \cup {fs[n].parent : n \in Discovered(fs)}
ExpectedParent(n) == fs[n].parent
ExpectedChildren(n) == {m \in Discovered(fs) : fs[m].parent = n}

\* C6: the constructed tree has the names, the parent of every image and the
\* children of every image that the definitions determine, whatever the order
\* of dockerfile_paths.
C6_ShapeFromDefinitions ==
    pc = "built" =>
        /\ {n \in Names : images[n] # NoImage} = ExpectedNames
        /\ \A n \in ExpectedNames :
              /\ NameOf(objs[images[n]].parent) = ExpectedParent(n)
              /\ {NameOf(c) : c \in Range(objs[images[n]].children)}
                   = ExpectedChildren(n)

\* C6 witness: a constructed tree of three definitions, one of them the
\* parent of the other two and discovered after one of them.
C6_Witness ==
    /\ pc = "built"
    /\ Len(dockerfile_paths) = 3
    /\ \E p \in Names :
          /\ Cardinality(ExpectedChildren(p)) = 2
          /\ \E i, j \in DOMAIN dockerfile_paths :
                i < j /\ dockerfile_paths[j] = p
                      /\ dockerfile_paths[i] \in ExpectedChildren(p)

\* What C7 requires a second registration to leave alone.
Registered(o) ==
    [i \in DOMAIN o |->
        [name |-> o[i].name, parent |-> o[i].parent,
         children |-> o[i].children, python_compat |-> o[i].python_compat]]

\* C7: add_to_tree on an image that is already registered (line 107)
\* succeeds and changes no node, parent, children, flag or root.
C7_RegisterIdempotent ==
    [][pc = "register"
       => /\ pc' # "failed"
          /\ Registered(objs') = Registered(objs)
          /\ images' = images
          /\ root_image' = root_image]_vars

\* C8: after construction the ancestors of every image but the root are the
\* chain from a child of the root down to the image itself.
C8_AncestorChain ==
    pc = "built" =>
        \A n \in InTree \ {root_image} :
            LET ancs == ancestors(objs, root_image, n)
            IN  /\ ancs.ok
                /\ ancs.val[Len(ancs.val)] = n
                /\ objs[ancs.val[1]].parent = root_image
                /\ \A k \in 1..(Len(ancs.val) - 1) :
                      objs[ancs.val[k + 1]].parent = ancs.val[k]
                /\ root_image \notin Range(ancs.val)
                /\ ParentPow(n, Len(ancs.val)) = root_image

\* C9: a query whose names are all keys of images raises nothing.
C9_OnlyNotFoundFails ==
    (pc = "queried" /\ \A k \in DOMAIN edited : images[edited[k]] # NoImage)
        => err = NoError

\* C10: no two Image objects were ever created for one name.
C10_OneObjectPerName ==
    \A n \in Names : Cardinality({i \in DOMAIN objs : objs[i].name = n}) <= 1
====
